---- MODULE Spec2Model ----
(***************************************************************************)
(* Buchfink command line: the balances, fetch, run, report and allowances  *)
(* commands of buchfink/cli.py over the configuration and the per-account  *)
(* ledger files read by buchfink/db.py.                                    *)
(***************************************************************************)
EXTENDS Integers, Sequences, FiniteSets, TLC

\* ------------------------------------------------------------------------
\* Bounds of the model
\* ------------------------------------------------------------------------
MaxAccounts == 2
MaxEntries == 1
MaxAmount == 2
MaxUsd == 1
MaxRate == 2
MaxTrades == 2
MaxReports == 2

\* ------------------------------------------------------------------------
\* Configuration (buchfink.yaml)
\* ------------------------------------------------------------------------
\* Asset identifiers, listed in ascending order of identifier.
Assets == <<"BTC", "ETH">>

AssetSet == {Assets[i] : i \in 1..Len(Assets)}

AssetRank(a) == CHOOSE i \in 1..Len(Assets) : Assets[i] = a

\* Account names are strings, kept as sequences of characters.
AccountPool ==
    { [name |-> <<"k", "1">>, kind |-> "exchange"],
      [name |-> <<"w", "2">>, kind |-> "ethereum"],
      [name |-> <<"b", "1">>, kind |-> "bitcoin"],
      [name |-> <<"f", "2">>, kind |-> "file"] }

\* --keyword option: absent (None) or a string.
Keywords ==
    { [given |-> FALSE, text |-> <<>>],
      [given |-> TRUE, text |-> <<"2">>] }

SeqsUpTo(S, n) == UNION {[1..k -> S] : k \in 0..n}

\* Account lists with unique names.
Configs ==
    {c \in SeqsUpTo(AccountPool, MaxAccounts) :
        /\ Len(c) >= 1
        /\ \A i, j \in 1..Len(c) : i # j => c[i].name # c[j].name}

\* Python `keyword in name` on strings.
IsSubstring(k, n) ==
    \E i \in 0..(Len(n) - Len(k)) :
        \A j \in 1..Len(k) : n[i + j] = k[j]

\* the keyword filter taken out: no account is passed over for its name
KeywordNeverSkips(kw, n) == FALSE

\* `keyword is not None and keyword not in account['name']`
KeywordSkips(kw, n) == kw.given /\ ~IsSubstring(kw.text, n)

\* ------------------------------------------------------------------------
\* Python dicts: insertion-ordered sequences of <<key, value>>
\* ------------------------------------------------------------------------
DictHas(d, k) == \E i \in 1..Len(d) : d[i][1] = k

DictGet(d, k, default) ==
    IF DictHas(d, k) THEN d[CHOOSE i \in 1..Len(d) : d[i][1] = k][2] ELSE default

DictPut(d, k, v) ==
    IF DictHas(d, k)
    THEN [i \in 1..Len(d) |-> IF d[i][1] = k THEN <<k, v>> ELSE d[i]]
    ELSE Append(d, <<k, v>>)

DictKeys(d) == {d[i][1] : i \in 1..Len(d)}

\* d[k] = v, dropping what was accumulated (a bug the sums would show).
DictAddOverwrite(d, k, v) == DictPut(d, k, v)

\* d[k] = d.get(k, FVal(0)) + v
DictAdd(d, k, v) == DictPut(d, k, DictGet(d, k, 0) + v)

EmptySums == [balances_sum |-> <<>>, usd_value_sum |-> <<>>]

\* ------------------------------------------------------------------------
\* balances: accumulation of one account's balances
\* ------------------------------------------------------------------------
\* Exchange: balances.items(), usd_value only where the entry carries one.
RECURSIVE AccumulateExchange(_, _)
AccumulateExchange(sums, balances) ==
    IF balances = <<>> THEN sums
    ELSE LET b == Head(balances)
             bs == DictAdd(sums.balances_sum, b.asset, b.amount)
             us == IF "usd_value" \in DOMAIN b
                   THEN DictAdd(sums.usd_value_sum, b.asset, b.usd_value)
                   ELSE sums.usd_value_sum
         IN AccumulateExchange([balances_sum |-> bs, usd_value_sum |-> us],
                               Tail(balances))

\* One address: eth_balance.asset_balances.items()
RECURSIVE AccumulateAssetBalances(_, _)
AccumulateAssetBalances(sums, asset_balances) ==
    IF asset_balances = <<>> THEN sums
    ELSE LET b == Head(asset_balances)
         IN AccumulateAssetBalances(
                [balances_sum |-> DictAdd(sums.balances_sum, b.asset, b.amount),
                 usd_value_sum |-> DictAdd(sums.usd_value_sum, b.asset, b.usd_value)],
                Tail(asset_balances))

\* Ethereum: manager.balances.eth.values()
RECURSIVE AccumulateEthereum(_, _)
AccumulateEthereum(sums, eth) ==
    IF eth = <<>> THEN sums
    ELSE AccumulateEthereum(AccumulateAssetBalances(sums, Head(eth)), Tail(eth))

\* Bitcoin: manager.balances.btc.values(), all of asset BTC
RECURSIVE AccumulateBitcoin(_, _)
AccumulateBitcoin(sums, btc) ==
    IF btc = <<>> THEN sums
    ELSE LET b == Head(btc)
         IN AccumulateBitcoin(
                [balances_sum |-> DictAdd(sums.balances_sum, "BTC", b.amount),
                 usd_value_sum |-> DictAdd(sums.usd_value_sum, "BTC", b.usd_value)],
                Tail(btc))

\* File: account['balances'], valued at amount * find_usd_price(asset)
RECURSIVE AccumulateFile(_, _)
AccumulateFile(sums, file_balances) ==
    IF file_balances = <<>> THEN sums
    ELSE LET b == Head(file_balances)
             usd_value == b.amount * b.price
         IN AccumulateFile(
                [balances_sum |-> DictAdd(sums.balances_sum, b.asset, b.amount),
                 usd_value_sum |-> DictAdd(sums.usd_value_sum, b.asset, usd_value)],
                Tail(file_balances))

\* The branch of the loop body taken for an account of each kind.
AccumulateAccount(sums, kind, data) ==
    CASE kind = "exchange" -> AccumulateExchange(sums, data)
      [] kind = "ethereum" -> AccumulateEthereum(sums, data)
      [] kind = "bitcoin" -> AccumulateBitcoin(sums, data)
      [] kind = "file" -> AccumulateFile(sums, data)

\* ------------------------------------------------------------------------
\* balances: the table
\* ------------------------------------------------------------------------
\* sorted(items, key=itemgetter(1), reverse=True): stable, so items of equal
\* value keep the order they have in the dict.
RECURSIVE SortedByValueDesc(_)
SortedByValueDesc(items) ==
    IF items = <<>> THEN <<>>
    ELSE LET n == Len(items)
             x == items[n]
             rest == SortedByValueDesc(SubSeq(items, 1, n - 1))
             k == Cardinality({i \in 1..Len(rest) : rest[i][2] >= x[2]})
         IN SubSeq(rest, 1, k) \o <<x>> \o SubSeq(rest, k + 1, Len(rest))

\* round(float(num / den), 2) in hundredths, ties to even.
Round2(num, den) ==
    LET q == (100 * num) \div den
        r == (100 * num) % den
    IN IF 2 * r > den \/ (2 * r = den /\ q % 2 = 1) THEN q + 1 ELSE q

RECURSIVE SumValues(_)
SumValues(items) ==
    IF items = <<>> THEN 0 ELSE items[1][2] + SumValues(Tail(items))

\* Rows [asset, balance, symbol, fiat value]; an absent cell (None) is <<>>.
BuildTable(s, rate) ==
    LET sorted == SortedByValueDesc(s.usd_value_sum)
        rows == [i \in 1..Len(sorted) |->
                    [asset |-> sorted[i][1],
                     amount |-> <<DictGet(s.balances_sum, sorted[i][1], 0)>>,
                     symbol |-> <<sorted[i][1]>>,
                     value |-> Round2(DictGet(s.usd_value_sum, sorted[i][1], 0), rate)]]
    IN Append(rows, [asset |-> "Total", amount |-> <<>>, symbol |-> <<>>,
                     value |-> Round2(SumValues(sorted), rate)])

\* ------------------------------------------------------------------------
\* What the collaborators may return
\* ------------------------------------------------------------------------
Amounts == 1..MaxAmount
UsdValues == 1..MaxUsd
Prices == 1..MaxUsd

DistinctAssets(s) == \A i, j \in 1..Len(s) : i # j => s[i].asset # s[j].asset

\* exchange.query_balances(): asset -> {amount[, usd_value]}
ExchangeBalances ==
    {s \in SeqsUpTo([asset : AssetSet, amount : Amounts]
                    \cup [asset : AssetSet, amount : Amounts, usd_value : UsdValues],
                    MaxEntries) :
        DistinctAssets(s)}

\* manager.balances.eth: one address, asset -> Balance(amount, usd_value)
EthereumBalances ==
    {<<s>> : s \in {t \in SeqsUpTo([asset : AssetSet, amount : Amounts,
                                    usd_value : UsdValues], MaxEntries) :
                        DistinctAssets(t)}}

\* manager.balances.btc: one address -> Balance(amount, usd_value)
BitcoinBalances == {<<b>> : b \in [amount : Amounts, usd_value : UsdValues]}

\* the file's `balances` list, each entry with the price found for its asset
FileBalances ==
    SeqsUpTo([asset : AssetSet, amount : Amounts, price : Prices], MaxEntries)

Rates == 1..MaxRate

\* ------------------------------------------------------------------------
\* The amounts a queried account reports, read off the collaborator's answer
\* ------------------------------------------------------------------------
RECURSIVE Flatten(_)
Flatten(ss) == IF ss = <<>> THEN <<>> ELSE Head(ss) \o Flatten(Tail(ss))

\* The (asset, amount) entries of an answer of each kind.
ReportedEntries(kind, data) ==
    CASE kind = "exchange" ->
            [i \in 1..Len(data) |-> [asset |-> data[i].asset, amount |-> data[i].amount]]
      [] kind = "ethereum" ->
            LET f == Flatten(data)
            IN [i \in 1..Len(f) |-> [asset |-> f[i].asset, amount |-> f[i].amount]]
      [] kind = "bitcoin" ->
            [i \in 1..Len(data) |-> [asset |-> "BTC", amount |-> data[i].amount]]
      [] kind = "file" ->
            [i \in 1..Len(data) |-> [asset |-> data[i].asset, amount |-> data[i].amount]]

RECURSIVE ReportedAmount(_, _)
ReportedAmount(entries, a) ==
    IF entries = <<>> THEN 0
    ELSE (IF Head(entries).asset = a THEN Head(entries).amount ELSE 0)
         + ReportedAmount(Tail(entries), a)

\* ------------------------------------------------------------------------
\* State
\* ------------------------------------------------------------------------
VARIABLES
    accounts,   \* config['accounts']
    keyword,    \* the --keyword option
    pc,         \* position of the running command
    idx,        \* index of the account the loop is at
    sums,       \* balances_sum and usd_value_sum
    currency_in_usd, \* find_usd_price(main currency), 0 before it is looked up
    table,      \* the printed table
    quantity,   \* history: per asset, the amounts reported by the accounts queried
    skipped,    \* history: indices of the accounts the loop passed with `continue`
    raised,     \* the exception that ended the command, or "none"
    inputs,     \* aggregation alone: the answers of the accounts, in order
    command,    \* the command invoked
    files,      \* trades/<name>.yaml of every account name
    trades,     \* fetch: the trades just queried
    last_saved, \* history: per account, the trades of its last completed save
    queried,    \* history: indices of the accounts whose trades this run queried
    validated,  \* history: indices of the accounts whose API key this run found valid
    reports,    \* config['reports']
    results,    \* run: results by report name
    ran,        \* history: the report definitions run_report was called with
    all_trades  \* allowances: the trades gathered

cfgVars == <<accounts, keyword>>
balVars == <<sums, currency_in_usd, table, quantity>>
fetchVars == <<files, trades, last_saved, queried, validated>>
reportVars == <<reports, results, ran, all_trades>>
\* what the balances command leaves alone
notBalances == <<inputs, command, fetchVars, reportVars>>
vars == <<accounts, keyword, pc, idx, sums, currency_in_usd, table, quantity,
          skipped, raised, inputs, command, files, trades, last_saved, queried,
          validated,
          reports, results, ran, all_trades>>

\* ------------------------------------------------------------------------
\* Ledger files and trades
\* ------------------------------------------------------------------------
Names == {a.name : a \in AccountPool}

\* the trades an exchange may list: the t-th, at time t, of amount t
Trades == {[timestamp |-> t, amount |-> t] : t \in 1..MaxTrades}

\* exchange.query_online_trade_history(): trades in the order the exchange gives
TradeHistories == SeqsUpTo(Trades, MaxTrades)

\* amounts are written as decimal strings
serialize_trade(t) == [timestamp |-> t.timestamp, amount |-> <<"str", t.amount>>]

deserialize_trade(d) == [timestamp |-> d.timestamp, amount |-> d.amount[2]]

serialize_trades(ts) == [i \in 1..Len(ts) |-> serialize_trade(ts[i])]

\* A file is absent, holds a whole document {"trades": doc}, or is partial:
\* opened for writing and holding only the part of the list written so far.
Absent == [state |-> "absent", doc |-> <<>>]

Written(doc) == [state |-> "written", doc |-> doc]

Partial(doc) == [state |-> "partial", doc |-> doc]

FileContents ==
    {Absent}
    \cup {Written(serialize_trades(ts)) : ts \in TradeHistories}
    \cup UNION {{Partial(serialize_trades(SubSeq(ts, 1, n))) : n \in 0..Len(ts)} :
                   ts \in TradeHistories}

NoFiles == [n \in Names |-> Absent]

NeverSaved == [n \in Names |-> [saved |-> FALSE, trades |-> <<>>]]

\* the state of the variables a command does not use
BalancesUnused ==
    /\ sums = EmptySums
    /\ currency_in_usd = 0
    /\ quantity = [a \in AssetSet |-> 0]
    /\ inputs = <<>>

FetchUnused ==
    /\ trades = <<>>
    /\ last_saved = NeverSaved
    /\ queried = {}
    /\ validated = {}

ReportsUnused ==
    /\ reports = <<>>
    /\ results = <<>>
    /\ ran = <<>>
    /\ all_trades = <<>>

\* ------------------------------------------------------------------------
\* balances command
\* ------------------------------------------------------------------------
InitBalances ==
    /\ accounts \in Configs
    /\ keyword \in Keywords
    /\ command = "balances"
    /\ pc = "balances"
    /\ idx = 1
    /\ sums = EmptySums
    /\ currency_in_usd = 0
    /\ table = <<>>
    /\ quantity = [a \in AssetSet |-> 0]
    /\ skipped = {}
    /\ raised = "none"
    /\ inputs = <<>>
    /\ files = NoFiles
    /\ FetchUnused
    /\ ReportsUnused

AtAccount(kind) ==
    /\ pc = "balances"
    /\ idx <= Len(accounts)
    /\ ~KeywordSkips(keyword, accounts[idx].name)
    /\ accounts[idx].kind = kind

\* `continue`
Skip ==
    /\ idx' = idx + 1
    /\ skipped' = skipped \cup {idx}
    /\ UNCHANGED <<cfgVars, pc, balVars, raised, notBalances>>

\* the loop body for an account whose query answered `data`
Accumulate(kind, data) ==
    /\ sums' = AccumulateAccount(sums, kind, data)
    /\ quantity' = [a \in AssetSet |->
                        quantity[a] + ReportedAmount(ReportedEntries(kind, data), a)]
    /\ idx' = idx + 1
    /\ UNCHANGED <<cfgVars, pc, currency_in_usd, table, skipped, raised, notBalances>>

\* an exception nothing catches ends the command
Raise(e) ==
    /\ pc' = "aborted"
    /\ raised' = e
    /\ UNCHANGED <<cfgVars, idx, balVars, skipped, notBalances>>

\* keyword given and not in the account's name: continue
BalancesKeywordSkip ==
    /\ pc = "balances"
    /\ idx <= Len(accounts)
    /\ KeywordSkips(keyword, accounts[idx].name)
    /\ Skip

\* validate_api_key() returned (False, error): logged, continue
BalancesInvalidKey ==
    /\ AtAccount("exchange")
    /\ Skip

\* query_balances() returned (None, error): nothing accumulated
BalancesExchangeError ==
    /\ AtAccount("exchange")
    /\ Skip

BalancesExchange ==
    /\ AtAccount("exchange")
    /\ \E b \in ExchangeBalances : Accumulate("exchange", b)

BalancesEthereum ==
    /\ AtAccount("ethereum")
    /\ \E b \in EthereumBalances : Accumulate("ethereum", b)

BalancesBitcoin ==
    /\ AtAccount("bitcoin")
    /\ \E b \in BitcoinBalances : Accumulate("bitcoin", b)

\* manager.query_balances() raises (RemoteError, EthSyncError): not caught
BalancesChainRaises ==
    /\ AtAccount("ethereum") \/ AtAccount("bitcoin")
    /\ Raise("RemoteError")

\* the file has no `balances` key, or a list of them
BalancesFile ==
    /\ AtAccount("file")
    /\ \E b \in FileBalances : Accumulate("file", b)

\* open(account['file']) raises: not caught
BalancesFileRaises ==
    /\ AtAccount("file")
    /\ Raise("FileNotFoundError")

\* after the loop: the rate of the main currency, the sorted rows, the total
BalancesTable ==
    /\ pc = "balances"
    /\ idx > Len(accounts)
    /\ currency_in_usd' \in Rates
    /\ table' = BuildTable(sums, currency_in_usd')
    /\ pc' = "done"
    /\ UNCHANGED <<cfgVars, idx, sums, quantity, skipped, raised, notBalances>>

NextBalances ==
    \/ BalancesKeywordSkip
    \/ BalancesInvalidKey
    \/ BalancesExchangeError
    \/ BalancesExchange
    \/ BalancesEthereum
    \/ BalancesBitcoin
    \/ BalancesChainRaises
    \/ BalancesFile
    \/ BalancesFileRaises
    \/ BalancesTable

SpecBalances == InitBalances /\ [][NextBalances]_vars

\* ------------------------------------------------------------------------
\* Aggregation as a function of the accounts' answers
\* ------------------------------------------------------------------------
\* The loop of balances over accounts that all answer: answers[i] is
\* [kind, data] of the i-th account.
RECURSIVE AggregateAll(_, _)
AggregateAll(s, answers) ==
    IF answers = <<>> THEN s
    ELSE AggregateAll(AccumulateAccount(s, Head(answers).kind, Head(answers).data),
                      Tail(answers))

Answers ==
    [kind : {"exchange"}, data : ExchangeBalances]
    \cup [kind : {"ethereum"}, data : EthereumBalances]
    \cup [kind : {"bitcoin"}, data : BitcoinBalances]
    \cup [kind : {"file"}, data : FileBalances]

InitAggregate ==
    /\ inputs \in SeqsUpTo(Answers, MaxAccounts)
    /\ accounts = <<>>
    /\ keyword = [given |-> FALSE, text |-> <<>>]
    /\ pc = "aggregate"
    /\ idx = 1
    /\ sums = EmptySums
    /\ currency_in_usd = 0
    /\ table = <<>>
    /\ quantity = [a \in AssetSet |-> 0]
    /\ skipped = {}
    /\ raised = "none"
    /\ command = "balances"
    /\ files = NoFiles
    /\ FetchUnused
    /\ ReportsUnused

\* balances over accounts answering `inputs`: the loop, then the table
Aggregate ==
    /\ pc = "aggregate"
    /\ sums' = AggregateAll(EmptySums, inputs)
    /\ currency_in_usd' \in Rates
    /\ table' = BuildTable(sums', currency_in_usd')
    /\ pc' = "done"
    /\ UNCHANGED <<cfgVars, idx, quantity, skipped, raised, notBalances>>

NextAggregate == Aggregate

SpecAggregate == InitAggregate /\ [][NextAggregate]_vars

\* ------------------------------------------------------------------------
\* Claims about balances
\* ------------------------------------------------------------------------
AssetRows == SubSeq(table, 1, Len(table) - 1)

TotalRow == table[Len(table)]

HasRow(a) == \E i \in 1..Len(AssetRows) : AssetRows[i].asset = a

\* C1: a failure while validating or querying one account only skips that
\* account: no such failure ends the command before the table is printed.
C1_AccountFailureIsolated == pc # "aborted"

\* C2: an asset with a quantity but no fiat value still has a row, with its
\* accumulated quantity, and the Total row is the sum of the values of the
\* assets that have one.
C2_UnpricedAssetKeepsRow ==
    pc = "done" =>
        /\ \A a \in DictKeys(sums.balances_sum) :
            ~DictHas(sums.usd_value_sum, a) =>
                \E i \in 1..Len(AssetRows) :
                    /\ AssetRows[i].asset = a
                    /\ AssetRows[i].amount = <<DictGet(sums.balances_sum, a, 0)>>
        /\ TotalRow.value = Round2(SumValues(sums.usd_value_sum), currency_in_usd)

IndexPermutations(n) == {p \in [1..n -> 1..n] : \A i, j \in 1..n : i # j => p[i] # p[j]}

\* C3: the table does not depend on the order of the accounts: every
\* permutation of the answers gives the same rows in the same order.
C3_OrderIndependent ==
    pc = "done" =>
        \A p \in IndexPermutations(Len(inputs)) :
            BuildTable(AggregateAll(EmptySums, [i \in 1..Len(inputs) |-> inputs[p[i]]]),
                       currency_in_usd) = table

\* C4: asset rows are in descending order of value total, rows of equal
\* value total in ascending order of asset identifier, the Total row last.
C4_RowsSortedTiesByAsset ==
    pc = "done" =>
        /\ TotalRow.asset = "Total"
        /\ \A i \in 1..Len(AssetRows) : AssetRows[i].asset # "Total"
        /\ \A i, j \in 1..Len(AssetRows) :
            i < j =>
                LET vi == DictGet(sums.usd_value_sum, AssetRows[i].asset, 0)
                    vj == DictGet(sums.usd_value_sum, AssetRows[j].asset, 0)
                IN \/ vi > vj
                   \/ /\ vi = vj
                      /\ AssetRank(AssetRows[i].asset) < AssetRank(AssetRows[j].asset)

\* C5: the quantity total of every asset is the sum of the amounts the
\* queried accounts reported for it, and is what the asset's row shows.
C5_QuantityIsSum ==
    /\ \A a \in AssetSet : DictGet(sums.balances_sum, a, 0) = quantity[a]
    /\ pc = "done" =>
        \A i \in 1..Len(AssetRows) :
            AssetRows[i].amount = <<quantity[AssetRows[i].asset]>>

\* C5 happens: two accounts of different kinds were queried, an asset got
\* amounts from both, and its row is in the table.
C5_Witness ==
    /\ pc = "done"
    /\ Cardinality({accounts[i].kind : i \in (1..Len(accounts)) \ skipped}) >= 2
    /\ \E a \in AssetSet : quantity[a] > MaxAmount /\ HasRow(a)

\* ------------------------------------------------------------------------
\* fetch command
\* ------------------------------------------------------------------------
\* what the fetch command leaves alone
notFetch == <<inputs, balVars, reportVars>>

\* --keyword of a fetch run: absent, or one of two strings, each found in the
\* names of some accounts and not of the others
FetchKeywords == Keywords \cup {[given |-> TRUE, text |-> <<"1">>]}

InitFetch ==
    /\ accounts \in Configs
    /\ keyword = [given |-> FALSE, text |-> <<>>]
    /\ command = "fetch"
    /\ pc = "start"
    /\ idx = 1
    /\ table = <<>>
    /\ skipped = {}
    /\ raised = "none"
    /\ files = NoFiles
    /\ BalancesUnused
    /\ FetchUnused
    /\ ReportsUnused

\* one invocation of `buchfink fetch [-k keyword]`
FetchStart ==
    /\ pc \in {"start", "done", "aborted"}
    /\ keyword' \in FetchKeywords
    /\ pc' = "fetch"
    /\ idx' = 1
    /\ skipped' = {}
    /\ queried' = {}
    /\ validated' = {}
    /\ raised' = "none"
    /\ trades' = <<>>
    /\ UNCHANGED <<accounts, command, files, last_saved, notFetch>>

FetchAt ==
    /\ pc = "fetch"
    /\ idx <= Len(accounts)

FetchAtExchange ==
    /\ FetchAt
    /\ ~KeywordSkips(keyword, accounts[idx].name)
    /\ accounts[idx].kind = "exchange"

FetchContinue ==
    /\ idx' = idx + 1
    /\ skipped' = skipped \cup {idx}
    /\ UNCHANGED <<cfgVars, command, pc, raised, fetchVars, notFetch>>

FetchRaise(e) ==
    /\ pc' = "aborted"
    /\ raised' = e
    /\ UNCHANGED <<cfgVars, command, idx, skipped, trades, last_saved, queried,
                   validated, notFetch>>

\* keyword given and not in the account's name: continue
FetchKeywordSkip ==
    /\ FetchAt
    /\ KeywordSkips(keyword, accounts[idx].name)
    /\ FetchContinue

\* 'exchange' not in account: continue
FetchNotExchange ==
    /\ FetchAt
    /\ ~KeywordSkips(keyword, accounts[idx].name)
    /\ accounts[idx].kind # "exchange"
    /\ FetchContinue

\* validate_api_key() returned (False, error): logged, continue
FetchInvalidKey ==
    /\ FetchAtExchange
    /\ FetchContinue

\* validate_api_key() returned (True, ''): on to the query
FetchValidKey ==
    /\ FetchAtExchange
    /\ validated' = validated \cup {idx}
    /\ pc' = "query"
    /\ UNCHANGED <<cfgVars, command, idx, skipped, raised, files, trades, last_saved,
                   queried, notFetch>>

\* query_online_trade_history(start_ts, end_ts) returns the trades
FetchQuery ==
    /\ pc = "query"
    /\ trades' \in TradeHistories
    /\ queried' = queried \cup {idx}
    /\ pc' = "open"
    /\ UNCHANGED <<cfgVars, command, idx, skipped, raised, files, last_saved,
                   validated, notFetch>>

\* query_online_trade_history raises (RemoteError): not caught
FetchQueryRaises ==
    /\ pc = "query"
    /\ queried' = queried \cup {idx}
    /\ pc' = "aborted"
    /\ raised' = "RemoteError"
    /\ UNCHANGED <<cfgVars, command, idx, skipped, trades, files, last_saved,
                   validated, notFetch>>

\* open("trades/" + name + ".yaml", "w"): the file is created or truncated
FetchOpen ==
    /\ pc = "open"
    /\ files' = [files EXCEPT ![accounts[idx].name] = Partial(<<>>)]
    /\ pc' = "dump"
    /\ UNCHANGED <<cfgVars, command, idx, skipped, raised, trades, last_saved,
                   queried, validated, notFetch>>

\* yaml.dump({"trades": serialize_trades(trades)}, stream=f), the file closed
FetchDump ==
    /\ pc = "dump"
    /\ files' = [files EXCEPT ![accounts[idx].name] = Written(serialize_trades(trades))]
    /\ last_saved' = [last_saved EXCEPT ![accounts[idx].name] =
                          [saved |-> TRUE, trades |-> trades]]
    /\ idx' = idx + 1
    /\ pc' = "fetch"
    /\ UNCHANGED <<cfgVars, command, skipped, raised, trades, queried, validated,
                   notFetch>>

\* serialize_trades or the write fails, or the process dies, with only the
\* first n entries written (none, if the serialization failed)
FetchDumpFails ==
    /\ pc = "dump"
    /\ \E n \in 0..Len(trades) :
        files' = [files EXCEPT ![accounts[idx].name] =
                      Partial(serialize_trades(SubSeq(trades, 1, n)))]
    /\ FetchRaise("WriteError")

\* the loop is over
FetchDone ==
    /\ pc = "fetch"
    /\ idx > Len(accounts)
    /\ pc' = "done"
    /\ UNCHANGED <<cfgVars, command, idx, skipped, raised, fetchVars, notFetch>>

NextFetch ==
    \/ FetchStart
    \/ FetchKeywordSkip
    \/ FetchNotExchange
    \/ FetchInvalidKey
    \/ FetchValidKey
    \/ FetchQuery
    \/ FetchQueryRaises
    \/ FetchOpen
    \/ FetchDump
    \/ FetchDumpFails
    \/ FetchDone

SpecFetch == InitFetch /\ [][NextFetch]_vars

\* ------------------------------------------------------------------------
\* Claims about fetch
\* ------------------------------------------------------------------------
\* what reading the ledger file back gives: deserialize_trade of each entry
StoredTrades(n) == [i \in 1..Len(files[n].doc) |-> deserialize_trade(files[n].doc[i])]

\* C6: once fetch runs are over, the ledger of an account holds exactly the
\* trades of its most recent successful fetch, in the order fetched.
C6_LedgerIsLastFetch ==
    pc \in {"done", "aborted"} =>
        \A n \in Names :
            last_saved[n].saved =>
                /\ files[n].state = "written"
                /\ StoredTrades(n) = last_saved[n].trades

\* C7: a save replaces the ledger atomically: in every state the file holds
\* a whole trade list, the previous one or the new one, never a partial one.
C7_LedgerNeverPartial ==
    \A n \in Names : files[n].state # "partial"

\* the tests an account passes before fetch queries it: keyword in its name
\* if one is given, 'exchange' in account, api_key_is_valid in this run
FetchSelected(i) ==
    /\ keyword.given => IsSubstring(keyword.text, accounts[i].name)
    /\ accounts[i].kind = "exchange"
    /\ i \in validated

\* C11: a fetch run issues a trade query, and creates or changes a ledger
\* file, only for an exchange account whose name contains the keyword (when
\* one is given) and whose API key the same run found valid before; no step
\* queries any other account or touches its ledger file.
C11_FetchOnlySelected ==
    [][ /\ \A i \in queried' \ queried : i = idx /\ FetchSelected(i)
        /\ \A n \in Names :
               files'[n] # files[n] =>
                   /\ n = accounts[idx].name
                   /\ idx \in queried
                   /\ FetchSelected(idx) ]_vars

\* C11 happens: a run with a keyword is over, having queried and written the
\* ledger of an exchange account, and passed over an account that is no
\* exchange account, whose ledger file is absent.
C11_Witness ==
    /\ command = "fetch"
    /\ pc = "done"
    /\ keyword.given
    /\ \E i \in queried :
           /\ FetchSelected(i)
           /\ files[accounts[i].name].state = "written"
    /\ \E j \in skipped :
           /\ accounts[j].kind # "exchange"
           /\ j \notin queried
           /\ files[accounts[j].name] = Absent

\* ------------------------------------------------------------------------
\* Report definitions
\* ------------------------------------------------------------------------
\* ISO date strings <<year, month, day>>; the last is no date.
IsoDates == {<<2021, 1, 1>>, <<2021, 12, 31>>, <<2021, 13, 1>>}

\* datetime.fromisoformat raises ValueError on a string that is no date
IsIsoDate(str) == str[2] \in 1..12 /\ str[3] \in 1..31

fromisoformat(str) == [year |-> str[1], month |-> str[2], day |-> str[3]]

\* dt1 <= dt2 on datetimes
DtLeq(dt1, dt2) ==
    \/ dt1.year < dt2.year
    \/ dt1.year = dt2.year /\ dt1.month < dt2.month
    \/ dt1.year = dt2.year /\ dt1.month = dt2.month /\ dt1.day <= dt2.day

ReportNames == {<<"r", "1">>, <<"r", "2">>}

\* an entry of config['reports']
ReportInfos == [name : ReportNames, from : IsoDates, to : IsoDates]

\* the record of a report definition: its fields, as given
ReportConfig(name, from_dt, to_dt) ==
    [name |-> name, from_dt |-> from_dt, to_dt |-> to_dt]

\* what get_all_reports yields for one entry
ReportOf(report_info) ==
    ReportConfig(report_info.name, fromisoformat(report_info.from),
                 fromisoformat(report_info.to))

\* run_report fails with ReportError when the accounting raises
ReportError == "ReportError"

\* the overview of a result of run_report
Overviews == [total_profit_loss : 0..MaxUsd, total_taxable_profit_loss : 0..MaxUsd]

\* ------------------------------------------------------------------------
\* run and report commands
\* ------------------------------------------------------------------------
\* what run and report leave alone
notRun == <<inputs, sums, currency_in_usd, quantity, fetchVars, all_trades, skipped>>

\* run_report is taken by its outcome alone, so one account is as good as more
InitRun ==
    /\ accounts \in {c \in Configs : Len(c) = 1}
    /\ reports \in SeqsUpTo(ReportInfos, MaxReports)
    /\ keyword \in Keywords
    /\ command \in {"run", "report"}
    /\ pc = command
    /\ idx = 1
    /\ table = <<>>
    /\ skipped = {}
    /\ raised = "none"
    /\ files = NoFiles
    /\ results = <<>>
    /\ ran = <<>>
    /\ all_trades = <<>>
    /\ BalancesUnused
    /\ FetchUnused

RunAt ==
    /\ pc = "run"
    /\ idx <= Len(reports)

RunParses == IsIsoDate(reports[idx].from) /\ IsIsoDate(reports[idx].to)

RunRaise(e) ==
    /\ pc' = "aborted"
    /\ raised' = e
    /\ UNCHANGED <<cfgVars, command, idx, table, reports, results, notRun>>

\* get_all_reports: fromisoformat raises on `from` or `to`: not caught
RunParseRaises ==
    /\ RunAt
    /\ ~RunParses
    /\ ran' = ran
    /\ RunRaise("ValueError")

\* keyword given and not in the report's name: continue
RunKeywordSkip ==
    /\ RunAt
    /\ RunParses
    /\ KeywordSkips(keyword, reports[idx].name)
    /\ idx' = idx + 1
    /\ UNCHANGED <<cfgVars, command, pc, raised, table, reportVars, notRun>>

\* results[name] = run_report(buchfink_db, report)
RunReport ==
    /\ RunAt
    /\ RunParses
    /\ ~KeywordSkips(keyword, reports[idx].name)
    /\ ran' = Append(ran, ReportOf(reports[idx]))
    /\ \E overview \in Overviews :
        results' = DictPut(results, reports[idx].name, [overview |-> overview])
    /\ idx' = idx + 1
    /\ UNCHANGED <<cfgVars, command, pc, raised, table, reports, notRun>>

\* run_report raises (the accounting failed): not caught
RunReportRaises ==
    /\ RunAt
    /\ RunParses
    /\ ~KeywordSkips(keyword, reports[idx].name)
    /\ ran' = Append(ran, ReportOf(reports[idx]))
    /\ RunRaise(ReportError)

\* after the loop: one row per entry of results
RunTable ==
    /\ pc = "run"
    /\ idx > Len(reports)
    /\ table' = [i \in 1..Len(results) |->
                    [report |-> results[i][1],
                     profit_loss |-> results[i][2].overview.total_profit_loss,
                     taxable |-> results[i][2].overview.total_taxable_profit_loss]]
    /\ pc' = "done"
    /\ UNCHANGED <<cfgVars, command, idx, raised, reportVars, notRun>>

\* report --name --from --to: a date that does not parse
ReportParseRaises ==
    /\ pc = "report"
    /\ \E from_, to \in IsoDates : ~(IsIsoDate(from_) /\ IsIsoDate(to))
    /\ ran' = ran
    /\ RunRaise("ValueError")

\* report --name --from --to: run_report on the definition built from them
ReportAdHoc ==
    /\ pc = "report"
    /\ \E name \in ReportNames, from_, to \in IsoDates :
        /\ IsIsoDate(from_) /\ IsIsoDate(to)
        /\ ran' = Append(ran, ReportConfig(name, fromisoformat(from_), fromisoformat(to)))
        /\ \E overview \in Overviews :
            results' = DictPut(results, name, [overview |-> overview])
    /\ pc' = "done"
    /\ UNCHANGED <<cfgVars, command, idx, raised, table, reports, notRun>>

\* report --name --from --to: run_report raises
ReportAdHocRaises ==
    /\ pc = "report"
    /\ \E name \in ReportNames, from_, to \in IsoDates :
        /\ IsIsoDate(from_) /\ IsIsoDate(to)
        /\ ran' = Append(ran, ReportConfig(name, fromisoformat(from_), fromisoformat(to)))
    /\ RunRaise(ReportError)

NextRun ==
    \/ RunParseRaises
    \/ RunKeywordSkip
    \/ RunReport
    \/ RunReportRaises
    \/ RunTable
    \/ ReportParseRaises
    \/ ReportAdHoc
    \/ ReportAdHocRaises

SpecRun == InitRun /\ [][NextRun]_vars

\* ------------------------------------------------------------------------
\* Claims about run and report
\* ------------------------------------------------------------------------
\* C9: in a batch run, a failure of the accounting on one report is fatal
\* for that report only: when the run is over every matching report has been
\* run, and every result obtained has its row in the overview table.
C9_ReportFailureIsolated ==
    (command = "run" /\ pc \in {"done", "aborted"} /\ raised # "ValueError") =>
        /\ \A i \in 1..Len(reports) :
            (/\ IsIsoDate(reports[i].from) /\ IsIsoDate(reports[i].to)
             /\ ~KeywordSkips(keyword, reports[i].name))
                => (i < idx \/ (i = idx /\ raised = ReportError))
        /\ \A k \in 1..Len(results) :
            \E r \in 1..Len(table) : table[r].report = results[k][1]

\* C10: no report is ever run with from_dt later than to_dt: such a
\* definition is rejected when it is loaded or built.
C10_NoReportRunFromAfterTo ==
    \A i \in 1..Len(ran) : DtLeq(ran[i].from_dt, ran[i].to_dt)

\* ------------------------------------------------------------------------
\* allowances command
\* ------------------------------------------------------------------------
\* what allowances leaves alone
notAllowances == <<inputs, sums, currency_in_usd, quantity, fetchVars,
                   reports, results, ran>>

\* BuchfinkDB.get_local_trades_for_account for an exchange or chain account:
\* the trades, or the exception raised. A missing file makes open() raise; an
\* empty file loads as None, and None['trades'] raises.
get_local_trades_for_account(account, fs) ==
    CASE account.kind = "exchange" ->
            IF fs[account.name].state = "absent"
            THEN [raises |-> "FileNotFoundError", trades |-> <<>>]
            ELSE IF fs[account.name] = Partial(<<>>)
            THEN [raises |-> "TypeError", trades |-> <<>>]
            ELSE [raises |-> "none",
                  trades |-> [i \in 1..Len(fs[account.name].doc) |->
                                 deserialize_trade(fs[account.name].doc[i])]]
      [] account.kind \in {"ethereum", "bitcoin"} ->
            [raises |-> "none", trades |-> <<>>]

\* ledger files exist for exchange accounts only
LedgerFiles ==
    {fs \in [Names -> FileContents] :
        \A a \in AccountPool : a.kind # "exchange" => fs[a.name] = Absent}

InitAllowances ==
    /\ accounts \in Configs
    /\ files \in LedgerFiles
    /\ keyword = [given |-> FALSE, text |-> <<>>]
    /\ command = "allowances"
    /\ pc = "allowances"
    /\ idx = 1
    /\ table = <<>>
    /\ skipped = {}
    /\ raised = "none"
    /\ BalancesUnused
    /\ FetchUnused
    /\ ReportsUnused

AllowancesAt(kinds) ==
    /\ pc = "allowances"
    /\ idx <= Len(accounts)
    /\ accounts[idx].kind \in kinds

AllowancesRaise(e) ==
    /\ pc' = "aborted"
    /\ raised' = e
    /\ UNCHANGED <<cfgVars, command, idx, table, skipped, all_trades, notAllowances>>

\* all_trades.extend(get_local_trades_for_account(name))
AllowancesLocalTrades ==
    /\ AllowancesAt({"exchange", "ethereum", "bitcoin"})
    /\ LET got == get_local_trades_for_account(accounts[idx], files)
       IN /\ got.raises = "none"
          /\ all_trades' = all_trades \o got.trades
    /\ idx' = idx + 1
    /\ UNCHANGED <<cfgVars, command, pc, raised, table, skipped, notAllowances>>

\* get_local_trades_for_account raises: not caught
AllowancesLocalTradesRaises ==
    /\ AllowancesAt({"exchange", "ethereum", "bitcoin"})
    /\ LET got == get_local_trades_for_account(accounts[idx], files)
       IN /\ got.raises # "none"
          /\ AllowancesRaise(got.raises)

\* file account: exchange.get('trades', []) of the user's file
AllowancesFileTrades ==
    /\ AllowancesAt({"file"})
    /\ \E ts \in TradeHistories : all_trades' = all_trades \o ts
    /\ idx' = idx + 1
    /\ UNCHANGED <<cfgVars, command, pc, raised, table, skipped, notAllowances>>

\* file account: open() of the user's file raises: not caught
AllowancesFileRaises ==
    /\ AllowancesAt({"file"})
    /\ AllowancesRaise("FileNotFoundError")

\* accountant.process_history(...), then one row per entry of events.details
AllowancesTable ==
    /\ pc = "allowances"
    /\ idx > Len(accounts)
    /\ \E details \in SeqsUpTo([symbol : AssetSet, allowance : Amounts,
                                buy_price : Prices], MaxEntries) :
        table' = [i \in 1..Len(details) |->
                     [symbol |-> details[i].symbol, allowance |-> details[i].allowance,
                      amount |-> "TBD", buy_price |-> details[i].buy_price]]
    /\ pc' = "done"
    /\ UNCHANGED <<cfgVars, command, idx, raised, skipped, all_trades, notAllowances>>

NextAllowances ==
    \/ AllowancesLocalTrades
    \/ AllowancesLocalTradesRaises
    \/ AllowancesFileTrades
    \/ AllowancesFileRaises
    \/ AllowancesTable

SpecAllowances == InitAllowances /\ [][NextAllowances]_vars

\* ------------------------------------------------------------------------
\* Claims about allowances
\* ------------------------------------------------------------------------
\* C8: an exchange account without a ledger file contributes no trades and
\* the gathering goes on: the missing ledger does not end the command.
C8_MissingLedgerIsEmpty ==
    ~ /\ pc = "aborted"
      /\ accounts[idx].kind = "exchange"
      /\ files[accounts[idx].name].state = "absent"

====
